---- MODULE Spec2Model ----
(***************************************************************************)
(* A model of the combinational-logic simulator: the Wire / gate           *)
(* primitives (src/src/circuit/mod.rs), the Component trait and its        *)
(* implementors (src/src/component/*.rs) and the Potentials codec.         *)
(*                                                                         *)
(* A Wire is modelled by the Potential it holds, a gate by the Potential   *)
(* of its one wire.  Pin positions are zero-based as in the source; the    *)
(* sequences that hold them are one-based, so pin p is element p + 1.      *)
(***************************************************************************)
EXTENDS Integers, Sequences, FiniteSets, TLC

\* ------------------------------------------------------------------ bounds
\* Largest n_way an EnablerN or ANDGateN is constructed with.
MaxWay == 3
\* Largest n_way of a RippleCarryAdder driven through the whole interface.
MaxAdderWay == 1
\* Largest n_way of a RippleCarryAdder driven by fire and update_state only.
MaxFireAdderWay == 2
\* Longest boolean sequence a Potentials value is built from.
MaxLen == 9
\* Largest format_type passed to to_raw (0, 1 and 2 are supported).
MaxFormatType == 3
\* Longest text a caller passes to from_little_endian / from_big_endian.
MaxText == 6

\* ------------------------------------------------------------------ wires
Wire_default == FALSE
Wire_new(potential) == potential
Wire_output(w) == w
Wire_input(w, potential) == potential

\* A vector of n default wires: vec![Wire::default(); n] and [Wire; n]::default().
Wires(n) == [i \in 1..n |-> Wire_default]

\* ------------------------------------------------------------------ operators
operator_not(a) == ~a
operator_and(a, b) == a /\ b
operator_or(a, b) == a \/ b
operator_xor(a, b) == a # b
operator_nand(a, b) == operator_not(operator_and(a, b))
operator_nor(a, b) == operator_not(operator_or(a, b))

\* ------------------------------------------------------------------ gates
\* Each gate is its wire; input overwrites the wire with the operator's result.
ANDGate_input(g, a, b) == Wire_input(g, operator_and(a, b))
ORGate_input(g, a, b) == Wire_input(g, operator_or(a, b))
NOTGate_input(g, a) == Wire_input(g, operator_not(a))
\* Mutant: the XOR gate is driven by the OR operator.
XORGate_input_or(g, a, b) == Wire_input(g, operator_or(a, b))
XORGate_input(g, a, b) == Wire_input(g, operator_xor(a, b))
NANDGate_input(g, a, b) == Wire_input(g, operator_nand(a, b))
NORGate_input(g, a, b) == Wire_input(g, operator_nor(a, b))
Gate_output(g) == Wire_output(g)

\* ------------------------------------------------------------------ Component trait
\* Writing the wire of pin `position` (the body of every set_pin_input after
\* its assert).
PutPin(wires, position, value) ==
    [wires EXCEPT ![position + 1] = Wire_input(wires[position + 1], value)]

\* The loop of Component::input on a component whose pins it addresses are
\* all in range: pins 0..len-1 are written in order, the others are kept.
WritePins(wires, vec) ==
    [i \in 1..Len(wires) |-> IF i <= Len(vec) THEN Wire_input(wires[i], vec[i]) ELSE wires[i]]

\* The value of input or output pin `position`.
Pin(wires, position) == Wire_output(wires[position + 1])

\* ------------------------------------------------------------------ adder.rs
HalfAdder_default ==
    [kind |-> "HalfAdder", input |-> Wires(2), output |-> Wires(2),
     and_gate |-> Wire_default, xor_gate |-> Wire_default]

\* Mutant: the carry is put on pin 0 and the sum on pin 1.
HalfAdder_update_state_swapped(c) ==
    LET and_gate == ANDGate_input(c.and_gate, Pin(c.input, 0), Pin(c.input, 1))
        xor_gate == XORGate_input(c.xor_gate, Pin(c.input, 0), Pin(c.input, 1))
        out0 == PutPin(c.output, 0, Gate_output(and_gate))
        out1 == PutPin(out0, 1, Gate_output(xor_gate))
    IN  [c EXCEPT !.and_gate = and_gate, !.xor_gate = xor_gate, !.output = out1]

HalfAdder_update_state(c) ==
    LET and_gate == ANDGate_input(c.and_gate, Pin(c.input, 0), Pin(c.input, 1))
        xor_gate == XORGate_input(c.xor_gate, Pin(c.input, 0), Pin(c.input, 1))
        \* Sum, then Carry
        out0 == PutPin(c.output, 0, Gate_output(xor_gate))
        out1 == PutPin(out0, 1, Gate_output(and_gate))
    IN  [c EXCEPT !.and_gate = and_gate, !.xor_gate = xor_gate, !.output = out1]

\* Component::fire on a HalfAdder owned by a FullAdder (vec has 2 values).
HalfAdder_fire(c, vec) ==
    HalfAdder_update_state([c EXCEPT !.input = WritePins(c.input, vec)])

FullAdder_default ==
    [kind |-> "FullAdder", input |-> Wires(3), output |-> Wires(2),
     half_adder |-> <<HalfAdder_default, HalfAdder_default>>,
     or_gate |-> Wire_default]

\* Mutant: the outputs of the second half adder are read before it is
\* fired, so the sum and the carry are those of the cycle before.
FullAdder_update_state_stale(c) ==
    LET ha0 == HalfAdder_fire(c.half_adder[1], <<Pin(c.input, 0), Pin(c.input, 1)>>)
        out1 == ha0.output
        out2 == c.half_adder[2].output
        ha1 == HalfAdder_fire(c.half_adder[2], <<Pin(out1, 0), Pin(c.input, 2)>>)
        or_gate == ORGate_input(c.or_gate, Pin(out1, 1), Pin(out2, 1))
        o0 == PutPin(c.output, 0, Pin(out2, 0))
        o1 == PutPin(o0, 1, Gate_output(or_gate))
    IN  [c EXCEPT !.half_adder = <<ha0, ha1>>, !.or_gate = or_gate, !.output = o1]

FullAdder_update_state(c) ==
    LET ha0 == HalfAdder_fire(c.half_adder[1], <<Pin(c.input, 0), Pin(c.input, 1)>>)
        out1 == ha0.output
        ha1 == HalfAdder_fire(c.half_adder[2], <<Pin(out1, 0), Pin(c.input, 2)>>)
        out2 == ha1.output
        or_gate == ORGate_input(c.or_gate, Pin(out1, 1), Pin(out2, 1))
        \* Sum, then Carry
        o0 == PutPin(c.output, 0, Pin(out2, 0))
        o1 == PutPin(o0, 1, Gate_output(or_gate))
    IN  [c EXCEPT !.half_adder = <<ha0, ha1>>, !.or_gate = or_gate, !.output = o1]

\* Component::fire on a FullAdder owned by a RippleCarryAdder (vec has 3 values).
FullAdder_fire(c, vec) ==
    FullAdder_update_state([c EXCEPT !.input = WritePins(c.input, vec)])

RippleCarryAdder_new(n_way) ==
    [kind |-> "RippleCarryAdder", n_way |-> n_way,
     input |-> Wires(2 * n_way + 1),
     full_adders |-> [i \in 1..n_way |-> FullAdder_default],
     output |-> Wires(n_way + 1)]

\* The for loop of RippleCarryAdder::update_state from index i on; cursor is
\* the (sum, carry) output of full adder i - 1.
RECURSIVE RippleCarryAdder_loop(_, _, _)
RippleCarryAdder_loop(c, i, cursor) ==
    IF i >= c.n_way
    THEN [comp |-> c, cursor |-> cursor]
    ELSE LET out == PutPin(c.output, i - 1, Pin(cursor, 0))
             fa == FullAdder_fire(c.full_adders[i + 1],
                                  <<Pin(c.input, 1 + i),
                                    Pin(c.input, 1 + c.n_way + i),
                                    Pin(cursor, 1)>>)
         IN  RippleCarryAdder_loop(
                 [c EXCEPT !.output = out, !.full_adders[i + 1] = fa],
                 i + 1, fa.output)

\* Mutant: the first full adder is fired without the carry-in of pin 0.
RippleCarryAdder_update_state_no_carry_in(c) ==
    IF c.n_way = 0
    THEN [panic |-> TRUE, comp |-> c]
    ELSE LET fa0 == FullAdder_fire(c.full_adders[1],
                                   <<Pin(c.input, 1), Pin(c.input, 1 + c.n_way), FALSE>>)
             r == RippleCarryAdder_loop([c EXCEPT !.full_adders[1] = fa0], 1, fa0.output)
             o0 == PutPin(r.comp.output, c.n_way - 1, Pin(r.cursor, 0))
             o1 == PutPin(o0, c.n_way, Pin(r.cursor, 1))
         IN  [panic |-> FALSE, comp |-> [r.comp EXCEPT !.output = o1]]

\* Mutant: with no full adder the carry-in is passed to the carry-out.
RippleCarryAdder_update_state_zero_passes_carry(c) ==
    IF c.n_way = 0
    THEN [panic |-> FALSE,
          comp |-> [c EXCEPT !.output = PutPin(c.output, 0, Pin(c.input, 0))]]
    ELSE LET fa0 == FullAdder_fire(c.full_adders[1],
                                   <<Pin(c.input, 1), Pin(c.input, 1 + c.n_way),
                                     Pin(c.input, 0)>>)
             r == RippleCarryAdder_loop([c EXCEPT !.full_adders[1] = fa0], 1, fa0.output)
             o0 == PutPin(r.comp.output, c.n_way - 1, Pin(r.cursor, 0))
             o1 == PutPin(o0, c.n_way, Pin(r.cursor, 1))
         IN  [panic |-> FALSE, comp |-> [r.comp EXCEPT !.output = o1]]

\* Mutant: the last carry is not written to the carry-out pin.
RippleCarryAdder_update_state_no_last_carry(c) ==
    IF c.n_way = 0
    THEN [panic |-> TRUE, comp |-> c]
    ELSE LET fa0 == FullAdder_fire(c.full_adders[1],
                                   <<Pin(c.input, 1), Pin(c.input, 1 + c.n_way),
                                     Pin(c.input, 0)>>)
             r == RippleCarryAdder_loop([c EXCEPT !.full_adders[1] = fa0], 1, fa0.output)
             o0 == PutPin(r.comp.output, c.n_way - 1, Pin(r.cursor, 0))
         IN  [panic |-> FALSE, comp |-> [r.comp EXCEPT !.output = o0]]

\* panic = TRUE: the call aborted (index out of bounds on full_adders[0] when
\* n_way = 0) and the component is as it was.
RippleCarryAdder_update_state(c) ==
    IF c.n_way = 0
    THEN [panic |-> TRUE, comp |-> c]
    ELSE LET fa0 == FullAdder_fire(c.full_adders[1],
                                   <<Pin(c.input, 1), Pin(c.input, 1 + c.n_way),
                                     Pin(c.input, 0)>>)
             r == RippleCarryAdder_loop([c EXCEPT !.full_adders[1] = fa0], 1, fa0.output)
             \* last sum, last carry
             o0 == PutPin(r.comp.output, c.n_way - 1, Pin(r.cursor, 0))
             o1 == PutPin(o0, c.n_way, Pin(r.cursor, 1))
         IN  [panic |-> FALSE, comp |-> [r.comp EXCEPT !.output = o1]]

\* ------------------------------------------------------------------ big_gates.rs
ANDGate3_default ==
    [kind |-> "ANDGate3", input |-> Wires(3),
     and_gate |-> <<Wire_default, Wire_default>>, output |-> Wires(1)]

ANDGate3_update_state(c) ==
    LET g0 == ANDGate_input(c.and_gate[1], Pin(c.input, 0), Pin(c.input, 1))
        g1 == ANDGate_input(c.and_gate[2], Gate_output(g0), Pin(c.input, 2))
    IN  [c EXCEPT !.and_gate = <<g0, g1>>, !.output = PutPin(c.output, 0, Gate_output(g1))]

ORGate3_default ==
    [kind |-> "ORGate3", input |-> Wires(3),
     or_gate |-> <<Wire_default, Wire_default>>, output |-> Wires(1)]

ORGate3_update_state(c) ==
    LET g0 == ORGate_input(c.or_gate[1], Pin(c.input, 0), Pin(c.input, 1))
        g1 == ORGate_input(c.or_gate[2], Gate_output(g0), Pin(c.input, 2))
    IN  [c EXCEPT !.or_gate = <<g0, g1>>, !.output = PutPin(c.output, 0, Gate_output(g1))]

\* Component::input on the ORGate3 owned by a PriorityEncoder4_2: the pins
\* are written and update_state is not called.
ORGate3_input(c, vec) == [c EXCEPT !.input = WritePins(c.input, vec)]

\* ANDGateN::new(n_way) for n_way >= 1 (n_way = 0 aborts on n_way - 1).
ANDGateN_new(n_way) ==
    [kind |-> "ANDGateN", n_way |-> n_way, input |-> Wires(n_way),
     and_gate |-> [i \in 1..(n_way - 1) |-> Wire_default], output |-> Wires(1)]

\* The for loop of ANDGateN::update_state from index i on.
RECURSIVE ANDGateN_loop(_, _)
ANDGateN_loop(c, i) ==
    IF i >= c.n_way - 1
    THEN c
    ELSE LET tmp_1 == Gate_output(c.and_gate[i])
             tmp_2 == Pin(c.input, i + 1)
         IN  ANDGateN_loop(
                 [c EXCEPT !.and_gate[i + 1] = ANDGate_input(c.and_gate[i + 1], tmp_1, tmp_2)],
                 i + 1)

\* Mutant: with a single input the gate passes it to the output.
ANDGateN_update_state_single_passes(c) ==
    IF c.n_way < 2
    THEN [panic |-> FALSE,
          comp |-> [c EXCEPT !.output = PutPin(c.output, 0, Pin(c.input, 0))]]
    ELSE LET g0 == ANDGate_input(c.and_gate[1], Pin(c.input, 0), Pin(c.input, 1))
             r == ANDGateN_loop([c EXCEPT !.and_gate[1] = g0], 1)
         IN  [panic |-> FALSE,
              comp |-> [r EXCEPT !.output =
                            PutPin(r.output, 0, Gate_output(r.and_gate[c.n_way - 1]))]]

\* Mutant: the output is taken from the first gate of the chain, not the last.
ANDGateN_update_state_first_gate(c) ==
    IF c.n_way < 2
    THEN [panic |-> TRUE, comp |-> c]
    ELSE LET g0 == ANDGate_input(c.and_gate[1], Pin(c.input, 0), Pin(c.input, 1))
             r == ANDGateN_loop([c EXCEPT !.and_gate[1] = g0], 1)
         IN  [panic |-> FALSE,
              comp |-> [r EXCEPT !.output =
                            PutPin(r.output, 0, Gate_output(r.and_gate[1]))]]

\* panic = TRUE: index out of bounds on and_gate[0] when n_way = 1.
ANDGateN_update_state(c) ==
    IF c.n_way < 2
    THEN [panic |-> TRUE, comp |-> c]
    ELSE LET g0 == ANDGate_input(c.and_gate[1], Pin(c.input, 0), Pin(c.input, 1))
             r == ANDGateN_loop([c EXCEPT !.and_gate[1] = g0], 1)
         IN  [panic |-> FALSE,
              comp |-> [r EXCEPT !.output =
                            PutPin(r.output, 0, Gate_output(r.and_gate[c.n_way - 1]))]]

\* ------------------------------------------------------------------ decoder.rs
Decoder1_2_default ==
    [kind |-> "Decoder1_2", input |-> Wires(1), output |-> Wires(2),
     not_gate |-> Wire_default]

Decoder1_2_update_state(c) ==
    LET not_gate == NOTGate_input(c.not_gate, Pin(c.input, 0))
        o0 == PutPin(c.output, 0, Gate_output(not_gate))
        o1 == PutPin(o0, 1, Pin(c.input, 0))
    IN  [c EXCEPT !.not_gate = not_gate, !.output = o1]

\* Mutant: the decoder is constructed with the outputs of an all-low
\* address already computed (output 0 high).
Decoder2_4_default_settled ==
    [kind |-> "Decoder2_4", input |-> Wires(2),
     output |-> <<TRUE, FALSE, FALSE, FALSE>>,
     not_gate |-> <<TRUE, TRUE>>, and_gate |-> <<TRUE, FALSE, FALSE, FALSE>>]

Decoder2_4_default ==
    [kind |-> "Decoder2_4", input |-> Wires(2), output |-> Wires(4),
     not_gate |-> Wires(2), and_gate |-> Wires(4)]

\* Mutant: the two address bits are taken in the other order (pin 0 as MSB).
Decoder2_4_update_state_msb_first(c) ==
    LET n0 == NOTGate_input(c.not_gate[1], Pin(c.input, 0))
        n1 == NOTGate_input(c.not_gate[2], Pin(c.input, 1))
        a0 == ANDGate_input(c.and_gate[1], Gate_output(n1), Gate_output(n0))
        a1 == ANDGate_input(c.and_gate[2], Pin(c.input, 1), Gate_output(n0))
        a2 == ANDGate_input(c.and_gate[3], Gate_output(n1), Pin(c.input, 0))
        a3 == ANDGate_input(c.and_gate[4], Pin(c.input, 1), Pin(c.input, 0))
        o0 == PutPin(c.output, 0, Gate_output(a0))
        o1 == PutPin(o0, 1, Gate_output(a1))
        o2 == PutPin(o1, 2, Gate_output(a2))
        o3 == PutPin(o2, 3, Gate_output(a3))
    IN  [c EXCEPT !.not_gate = <<n0, n1>>, !.and_gate = <<a0, a1, a2, a3>>, !.output = o3]

Decoder2_4_update_state(c) ==
    LET n0 == NOTGate_input(c.not_gate[1], Pin(c.input, 0))
        n1 == NOTGate_input(c.not_gate[2], Pin(c.input, 1))
        a0 == ANDGate_input(c.and_gate[1], Gate_output(n1), Gate_output(n0))
        a1 == ANDGate_input(c.and_gate[2], Gate_output(n1), Pin(c.input, 0))
        a2 == ANDGate_input(c.and_gate[3], Pin(c.input, 1), Gate_output(n0))
        a3 == ANDGate_input(c.and_gate[4], Pin(c.input, 1), Pin(c.input, 0))
        o0 == PutPin(c.output, 0, Gate_output(a0))
        o1 == PutPin(o0, 1, Gate_output(a1))
        o2 == PutPin(o1, 2, Gate_output(a2))
        o3 == PutPin(o2, 3, Gate_output(a3))
    IN  [c EXCEPT !.not_gate = <<n0, n1>>, !.and_gate = <<a0, a1, a2, a3>>, !.output = o3]

\* ------------------------------------------------------------------ encoder.rs
Encoder2_1_default ==
    [kind |-> "Encoder2_1", input |-> Wires(2), output |-> Wires(1)]

Encoder2_1_update_state(c) ==
    [c EXCEPT !.output = PutPin(c.output, 0, Pin(c.input, 1))]

Encoder4_2_default ==
    [kind |-> "Encoder4_2", input |-> Wires(4), output |-> Wires(2),
     or_gates |-> Wires(2)]

\* Mutant: the two OR gates drive each other's output pin.
Encoder4_2_update_state_swapped_bits(c) ==
    LET g0 == ORGate_input(c.or_gates[1], Pin(c.input, 3), Pin(c.input, 1))
        g1 == ORGate_input(c.or_gates[2], Pin(c.input, 3), Pin(c.input, 2))
        o0 == PutPin(c.output, 0, Gate_output(g1))
        o1 == PutPin(o0, 1, Gate_output(g0))
    IN  [c EXCEPT !.or_gates = <<g0, g1>>, !.output = o1]

\* Mutant: the first OR gate is wired to I2 in place of I1.
Encoder4_2_update_state_wrong_pin(c) ==
    LET g0 == ORGate_input(c.or_gates[1], Pin(c.input, 3), Pin(c.input, 2))
        g1 == ORGate_input(c.or_gates[2], Pin(c.input, 3), Pin(c.input, 2))
        o0 == PutPin(c.output, 0, Gate_output(g0))
        o1 == PutPin(o0, 1, Gate_output(g1))
    IN  [c EXCEPT !.or_gates = <<g0, g1>>, !.output = o1]

Encoder4_2_update_state(c) ==
    LET g0 == ORGate_input(c.or_gates[1], Pin(c.input, 3), Pin(c.input, 1))
        g1 == ORGate_input(c.or_gates[2], Pin(c.input, 3), Pin(c.input, 2))
        o0 == PutPin(c.output, 0, Gate_output(g0))
        o1 == PutPin(o0, 1, Gate_output(g1))
    IN  [c EXCEPT !.or_gates = <<g0, g1>>, !.output = o1]

PriorityEncoder4_2_default ==
    [kind |-> "PriorityEncoder4_2", input |-> Wires(4), output |-> Wires(3),
     or_gate_1 |-> Wire_default, or_gate_2 |-> Wire_default,
     and_gate |-> Wire_default, not_gate |-> Wire_default,
     big_or |-> ORGate3_default]

\* Mutant: I1 reaches the code bit without the NOT(I2) mask.
PriorityEncoder4_2_update_state_no_mask(c) ==
    LET or_gate_1 == ORGate_input(c.or_gate_1, Pin(c.input, 3), Pin(c.input, 2))
        o1 == Gate_output(or_gate_1)
        out_a == PutPin(c.output, 1, o1)
        not_gate == NOTGate_input(c.not_gate, Pin(c.input, 2))
        and_gate == ANDGate_input(c.and_gate, Pin(c.input, 1), TRUE)
        or_gate_2 == ORGate_input(c.or_gate_2, Pin(c.input, 3), Gate_output(and_gate))
        o0 == Gate_output(or_gate_2)
        out_b == PutPin(out_a, 0, o0)
        big_or == ORGate3_input(c.big_or, <<o1, Pin(c.input, 0), Pin(c.input, 1)>>)
        out_c == PutPin(out_b, 2, Pin(big_or.output, 0))
    IN  [c EXCEPT !.or_gate_1 = or_gate_1, !.not_gate = not_gate,
                  !.and_gate = and_gate, !.or_gate_2 = or_gate_2,
                  !.big_or = big_or, !.output = out_c]

PriorityEncoder4_2_update_state(c) ==
    LET or_gate_1 == ORGate_input(c.or_gate_1, Pin(c.input, 3), Pin(c.input, 2))
        o1 == Gate_output(or_gate_1)
        out_a == PutPin(c.output, 1, o1)
        not_gate == NOTGate_input(c.not_gate, Pin(c.input, 2))
        and_gate == ANDGate_input(c.and_gate, Pin(c.input, 1), Gate_output(not_gate))
        or_gate_2 == ORGate_input(c.or_gate_2, Pin(c.input, 3), Gate_output(and_gate))
        o0 == Gate_output(or_gate_2)
        out_b == PutPin(out_a, 0, o0)
        \* big_or.input(..): the pins are written, big_or is not updated
        big_or == ORGate3_input(c.big_or, <<o1, Pin(c.input, 0), Pin(c.input, 1)>>)
        \* v
        out_c == PutPin(out_b, 2, Pin(big_or.output, 0))
    IN  [c EXCEPT !.or_gate_1 = or_gate_1, !.not_gate = not_gate,
                  !.and_gate = and_gate, !.or_gate_2 = or_gate_2,
                  !.big_or = big_or, !.output = out_c]

\* ------------------------------------------------------------------ enabler.rs
EnablerN_new(n_way) ==
    [kind |-> "EnablerN", n_way |-> n_way, input |-> Wires(n_way + 1),
     and_gates |-> Wires(n_way), output |-> Wires(n_way)]

\* Mutant: the AND gates are not wired to the switcher, the data always
\* passes.
EnablerN_update_state_no_switcher(c) ==
    LET and_gates == [i \in 1..c.n_way |->
                         ANDGate_input(c.and_gates[i], Pin(c.input, i - 1), TRUE)]
    IN  [c EXCEPT !.and_gates = and_gates,
                  !.output = [i \in 1..c.n_way |->
                                 Wire_input(c.output[i], Gate_output(and_gates[i]))]]

EnablerN_update_state(c) ==
    LET switcher == Pin(c.input, c.n_way)
        and_gates == [i \in 1..c.n_way |->
                         ANDGate_input(c.and_gates[i], Pin(c.input, i - 1), switcher)]
    IN  [c EXCEPT !.and_gates = and_gates,
                  !.output = [i \in 1..c.n_way |->
                                 Wire_input(c.output[i], Gate_output(and_gates[i]))]]

\* ------------------------------------------------------------------ Component dispatch
\* get_pin_count of the component's own type: (input pins, output pins).
get_pin_count(c) ==
    CASE c.kind = "HalfAdder" -> <<2, 2>>
      [] c.kind = "FullAdder" -> <<3, 2>>
      [] c.kind = "RippleCarryAdder" -> <<2 * c.n_way + 1, c.n_way + 1>>
      [] c.kind = "ANDGate3" -> <<3, 1>>
      [] c.kind = "ORGate3" -> <<3, 1>>
      [] c.kind = "ANDGateN" -> <<c.n_way, 1>>
      [] c.kind = "Decoder1_2" -> <<1, 2>>
      [] c.kind = "Decoder2_4" -> <<2, 4>>
      [] c.kind = "Encoder2_1" -> <<2, 1>>
      [] c.kind = "Encoder4_2" -> <<4, 2>>
      [] c.kind = "PriorityEncoder4_2" -> <<4, 3>>
      [] c.kind = "EnablerN" -> <<c.n_way + 1, c.n_way>>
      [] OTHER -> <<0, 0>>

\* update_state of the component's own type.  panic = TRUE: the call
\* aborted and the component is as it was.
update_state(c) ==
    CASE c.kind = "HalfAdder" -> [panic |-> FALSE, comp |-> HalfAdder_update_state(c)]
      [] c.kind = "FullAdder" -> [panic |-> FALSE, comp |-> FullAdder_update_state(c)]
      [] c.kind = "RippleCarryAdder" -> RippleCarryAdder_update_state(c)
      [] c.kind = "ANDGate3" -> [panic |-> FALSE, comp |-> ANDGate3_update_state(c)]
      [] c.kind = "ORGate3" -> [panic |-> FALSE, comp |-> ORGate3_update_state(c)]
      [] c.kind = "ANDGateN" -> ANDGateN_update_state(c)
      [] c.kind = "Decoder1_2" -> [panic |-> FALSE, comp |-> Decoder1_2_update_state(c)]
      [] c.kind = "Decoder2_4" -> [panic |-> FALSE, comp |-> Decoder2_4_update_state(c)]
      [] c.kind = "Encoder2_1" -> [panic |-> FALSE, comp |-> Encoder2_1_update_state(c)]
      [] c.kind = "Encoder4_2" -> [panic |-> FALSE, comp |-> Encoder4_2_update_state(c)]
      [] c.kind = "PriorityEncoder4_2" ->
             [panic |-> FALSE, comp |-> PriorityEncoder4_2_update_state(c)]
      [] c.kind = "EnablerN" -> [panic |-> FALSE, comp |-> EnablerN_update_state(c)]

\* Mutant: the write is followed by update_state (the component propagates
\* on its own).
set_pin_input_propagating(c, position, value) ==
    IF position < get_pin_count(c)[1]
    THEN update_state([c EXCEPT !.input = PutPin(c.input, position, value)])
    ELSE [panic |-> TRUE, comp |-> c]

\* set_pin_input (the same body in every implementor): assert, then write.
set_pin_input(c, position, value) ==
    IF position < get_pin_count(c)[1]
    THEN [panic |-> FALSE, comp |-> [c EXCEPT !.input = PutPin(c.input, position, value)]]
    ELSE [panic |-> TRUE, comp |-> c]

\* get_pin_output (the same body in every implementor): assert, then read.
get_pin_output(c, position) ==
    IF position < get_pin_count(c)[2]
    THEN [panic |-> FALSE, value |-> Pin(c.output, position)]
    ELSE [panic |-> TRUE, value |-> FALSE]

\* Component::input: assert, then set_pin_input on pins 0..len-1 in order.
RECURSIVE Component_input_loop(_, _, _)
Component_input_loop(c, vec, i) ==
    IF i >= Len(vec)
    THEN [panic |-> FALSE, comp |-> c]
    ELSE LET r == set_pin_input(c, i, vec[i + 1])
         IN  IF r.panic THEN r ELSE Component_input_loop(r.comp, vec, i + 1)

\* Mutant: the length assert is missing, so an oversized batch aborts in
\* set_pin_input after the pins in range have been written.
Component_input_no_assert(c, vec) == Component_input_loop(c, vec, 0)

\* Mutant: the pins the batch does not reach are reset to low.
Component_input_clears_rest(c, vec) ==
    IF Len(vec) <= get_pin_count(c)[1]
    THEN LET r == Component_input_loop(c, vec, 0)
         IN  [panic |-> r.panic,
              comp |-> [r.comp EXCEPT !.input =
                           [i \in 1..Len(c.input) |->
                               IF i <= Len(vec) THEN r.comp.input[i] ELSE Wire_default]]]
    ELSE [panic |-> TRUE, comp |-> c]

Component_input(c, vec) ==
    IF Len(vec) <= get_pin_count(c)[1]
    THEN Component_input_loop(c, vec, 0)
    ELSE [panic |-> TRUE, comp |-> c]

\* Component::fire: input, then update_state.
Component_fire(c, vec) ==
    LET r == Component_input(c, vec)
    IN  IF r.panic THEN r ELSE update_state(r.comp)

\* Component::output: every output pin in order.
Component_output(c) ==
    [i \in 1..get_pin_count(c)[2] |-> get_pin_output(c, i - 1).value]

\* ------------------------------------------------------------------ Potentials
\* A Potentials value is [data, little_endian]; a text is a sequence of
\* one-character strings.
of_little_endian(potentials) == [data |-> potentials, little_endian |-> TRUE]
of_big_endian(potentials) == [data |-> potentials, little_endian |-> FALSE]

\* iter().rev() / Vec::reverse
Reverse(s) == [i \in 1..Len(s) |-> s[Len(s) + 1 - i]]

\* n times the character ch
Repeat(ch, n) == [i \in 1..n |-> ch]

\* Mutant: the stored sequence is returned whatever endianness is asked for.
get_data_as_stored(self, little_endian) == self.data

get_data(self, little_endian) ==
    IF self.little_endian # little_endian THEN Reverse(self.data) ELSE self.data

\* Mutant: a character other than '0', '1', ' ' is skipped like a space.
RECURSIVE parse_loop_skip_invalid(_, _, _, _, _)
parse_loop_skip_invalid(chars, ignore_padding, i, ignore, data) ==
    IF i > Len(chars)
    THEN [panic |-> FALSE, data |-> data]
    ELSE CASE chars[i] = "0" ->
                  parse_loop_skip_invalid(chars, ignore_padding, i + 1, ignore,
                             IF ~ignore_padding \/ (ignore_padding /\ ~ignore)
                             THEN Append(data, FALSE) ELSE data)
           [] chars[i] = "1" ->
                  parse_loop_skip_invalid(chars, ignore_padding, i + 1, FALSE,
                                          Append(data, TRUE))
           [] OTHER ->
                  parse_loop_skip_invalid(chars, ignore_padding, i + 1, ignore, data)

\* The loop shared by from_little_endian and from_big_endian: the characters
\* of `chars` are visited in order from index i on; `ignore` is TRUE while no
\* '1' has been seen.  panic = TRUE on a character other than '0', '1', ' '.
RECURSIVE parse_loop(_, _, _, _, _)
parse_loop(chars, ignore_padding, i, ignore, data) ==
    IF i > Len(chars)
    THEN [panic |-> FALSE, data |-> data]
    ELSE CASE chars[i] = "0" ->
                  parse_loop(chars, ignore_padding, i + 1, ignore,
                             IF ~ignore_padding \/ (ignore_padding /\ ~ignore)
                             THEN Append(data, FALSE) ELSE data)
           [] chars[i] = "1" ->
                  parse_loop(chars, ignore_padding, i + 1, FALSE, Append(data, TRUE))
           [] chars[i] = " " ->
                  parse_loop(chars, ignore_padding, i + 1, ignore, data)
           [] OTHER -> [panic |-> TRUE, data |-> data]

\* Mutant: the collected data is not reversed back into text order.
from_little_endian_no_reverse(little_endian, ignore_padding) ==
    LET r == parse_loop(Reverse(little_endian), ignore_padding, 1, TRUE, <<>>)
    IN  [panic |-> r.panic,
         value |-> [data |-> r.data, little_endian |-> TRUE]]

\* Mutant: the characters are visited first to last, so the zeros before
\* the first '1' are the ones taken for padding.
from_little_endian_forward(little_endian, ignore_padding) ==
    LET r == parse_loop(little_endian, ignore_padding, 1, TRUE, <<>>)
    IN  [panic |-> r.panic,
         value |-> [data |-> r.data, little_endian |-> TRUE]]

\* The characters are visited last to first and the collected data reversed.
from_little_endian(little_endian, ignore_padding) ==
    LET r == parse_loop(Reverse(little_endian), ignore_padding, 1, TRUE, <<>>)
    IN  [panic |-> r.panic,
         value |-> [data |-> Reverse(r.data), little_endian |-> TRUE]]

\* Mutant: the zeros before the first '1' are kept whatever ignore_padding is.
from_big_endian_keep_padding(big_endian, ignore_padding) ==
    LET r == parse_loop(big_endian, FALSE, 1, TRUE, <<>>)
    IN  [panic |-> r.panic,
         value |-> [data |-> r.data, little_endian |-> FALSE]]

\* The characters are visited first to last.
from_big_endian(big_endian, ignore_padding) ==
    LET r == parse_loop(big_endian, ignore_padding, 1, TRUE, <<>>)
    IN  [panic |-> r.panic,
         value |-> [data |-> r.data, little_endian |-> FALSE]]

\* str::trim_end on a text whose only whitespace is ' '.
RECURSIVE trim_end(_)
trim_end(s) ==
    IF Len(s) > 0 /\ s[Len(s)] = " " THEN trim_end(SubSeq(s, 1, Len(s) - 1)) ELSE s

\* The number of padding characters format() adds to `length` items.
format_padding(length, format_type) ==
    IF format_type = 1 /\ length % 4 # 0 THEN 4 - (length % 4)
    ELSE IF format_type = 2 /\ length % 8 # 0 THEN 8 - (length % 8)
    ELSE 0

\* The for loop of format() from item i on; s is the text so far.
RECURSIVE format_loop(_, _, _, _, _)
format_loop(items, format_type, i, cursor, s) ==
    IF i > Len(items)
    THEN s
    ELSE LET s1 == Append(s, IF items[i] THEN "1" ELSE "0")
             cursor1 == cursor + 1
             s2 == IF format_type = 1 /\ cursor1 % 4 = 0 /\ cursor1 # 0
                   THEN Append(s1, " ")
                   ELSE IF format_type = 2 /\ cursor1 % 8 = 0 /\ cursor1 # 0
                        THEN Append(s1, " ")
                        ELSE s1
         IN  format_loop(items, format_type, i + 1, cursor1, s2)

\* Mutant: the padding is put at the end for big-endian output too.
format_pad_at_end(items, format_type, little_endian) ==
    LET padding == format_padding(Len(items), format_type)
        s1 == format_loop(items, format_type, 1, 0, <<>>)
        s2 == s1 \o Repeat("0", padding)
    IN  trim_end(s2)

\* The inner fn format of to_raw.
format(items, format_type, little_endian) ==
    LET padding == format_padding(Len(items), format_type)
        \* big endian padding at the beginning
        s0 == IF ~little_endian THEN Repeat("0", padding) ELSE <<>>
        cursor0 == IF ~little_endian THEN padding ELSE 0
        s1 == format_loop(items, format_type, 1, cursor0, s0)
        \* little endian padding at the end
        s2 == IF little_endian THEN s1 \o Repeat("0", padding) ELSE s1
    IN  trim_end(s2)

\* panic = TRUE: assert!(format_type <= 2) failed.
to_raw(self, little_endian, format_type) ==
    IF format_type > 2
    THEN [panic |-> TRUE, value |-> <<>>]
    ELSE [panic |-> FALSE,
          value |-> format(IF self.little_endian # little_endian
                           THEN Reverse(self.data) ELSE self.data,
                           format_type, little_endian)]

\* ------------------------------------------------------------------ state
VARIABLES
    comp,     \* the component under test: its pins and every internal wire
    status,   \* "ok", or "panic" once a call has aborted
    lastOp,   \* the last Component call made on comp ("new": none yet)
    first,    \* TRUE iff the last call was the first one since construction
    batch,    \* the size of the vector the last call was given, if input or fire
    codec     \* the Potentials value under test and what was made of it

vars == <<comp, status, lastOp, first, batch, codec>>

\* What is left when a constructor aborts: no component.
NoComponent == [kind |-> "none", input |-> <<>>, output |-> <<>>]

\* No Potentials value is under test.
NoCodec == [step |-> "idle"]

\* Every sequence of Potentials a caller can pass to input / fire on a
\* component with `pins` input pins, one value too many included.
BatchVectors(pins) == UNION {[1..len -> BOOLEAN] : len \in 0..(pins + 1)}

\* The state after construction, for every constructor of the library, with
\* n_way up to `ways` (up to `adder_ways` for the RippleCarryAdder).
Constructed(ways, adder_ways) ==
    /\ lastOp = "new"
    /\ first = FALSE
    /\ batch = "none"
    /\ codec = NoCodec
    /\ \/ /\ status = "ok"
          /\ \/ comp = HalfAdder_default
             \/ comp = FullAdder_default
             \/ \E n \in 0..adder_ways : comp = RippleCarryAdder_new(n)
             \/ comp = ANDGate3_default
             \/ comp = ORGate3_default
             \/ \E n \in 1..ways : comp = ANDGateN_new(n)
             \/ comp = Decoder1_2_default
             \/ comp = Decoder2_4_default
             \/ comp = Encoder2_1_default
             \/ comp = Encoder4_2_default
             \/ comp = PriorityEncoder4_2_default
             \/ \E n \in 0..ways : comp = EnablerN_new(n)
       \/ \* ANDGateN::new(0): n_way - 1 underflows and the constructor aborts
          /\ status = "panic"
          /\ comp = NoComponent

Init == Constructed(MaxWay, MaxAdderWay)

\* The size of a vector given to input or fire on c: fewer values than
\* input pins, as many, or more.
BatchSize(c, vec) ==
    IF Len(vec) < get_pin_count(c)[1] THEN "short"
    ELSE IF Len(vec) = get_pin_count(c)[1] THEN "full"
    ELSE "long"

\* The effect of a call, given the values vec, that returned
\* r = [panic, comp].
CalledWith(op, vec, r) ==
    /\ comp' = r.comp
    /\ status' = IF r.panic THEN "panic" ELSE "ok"
    /\ lastOp' = op
    /\ first' = (lastOp = "new")
    /\ batch' = BatchSize(comp, vec)
    /\ UNCHANGED codec

\* The effect of a call other than input and fire.
Called(op, r) ==
    /\ comp' = r.comp
    /\ status' = IF r.panic THEN "panic" ELSE "ok"
    /\ lastOp' = op
    /\ first' = (lastOp = "new")
    /\ batch' = "none"
    /\ UNCHANGED codec

SetPinInput(position, value) ==
    /\ status = "ok"
    /\ Called("set_pin_input", set_pin_input(comp, position, value))

\* A read changes nothing unless it aborts.
GetPinOutput(position) ==
    /\ status = "ok"
    /\ IF get_pin_output(comp, position).panic
       THEN Called("get_pin_output", [panic |-> TRUE, comp |-> comp])
       ELSE UNCHANGED vars

UpdateState ==
    /\ status = "ok"
    /\ Called("update_state", update_state(comp))

Input(vec) ==
    /\ status = "ok"
    /\ CalledWith("input", vec, Component_input(comp, vec))

Fire(vec) ==
    /\ status = "ok"
    /\ CalledWith("fire", vec, Component_fire(comp, vec))

\* A caller that uses the whole Component interface.
Next ==
    \/ \E position \in 0..get_pin_count(comp)[1], value \in BOOLEAN :
           SetPinInput(position, value)
    \/ \E position \in 0..get_pin_count(comp)[2] : GetPinOutput(position)
    \/ UpdateState
    \/ \E vec \in BatchVectors(get_pin_count(comp)[1]) : Input(vec)
    \/ \E vec \in BatchVectors(get_pin_count(comp)[1]) : Fire(vec)

Spec == Init /\ [][Next]_vars

\* A caller that only sets and settles (fire, update_state), as the
\* composites do with their children; wider adders fit in its state space.
InitFire == Constructed(MaxWay, MaxFireAdderWay)

NextFire ==
    \/ \E vec \in BatchVectors(get_pin_count(comp)[1]) : Fire(vec)
    \/ UpdateState

SpecFire == InitFire /\ [][NextFire]_vars

\* ------------------------------------------------------------------ codec driver
\* Every boolean sequence of at most MaxLen elements.
BoolSeqs == UNION {[1..len -> BOOLEAN] : len \in 0..MaxLen}

\* The characters a text is made of; "x" stands for every character other
\* than '0', '1' and ' '.
Chars == {"0", "1", " ", "x"}

\* Every text of at most MaxText characters.
Texts == UNION {[1..len -> Chars] : len \in 0..MaxText}

\* The codec fields before any call has filled them.
BlankCodec ==
    [step |-> "of", source |-> "of", self |-> of_big_endian(<<>>),
     little_endian |-> FALSE, format_type |-> 0, raw |-> <<>>,
     ignore_padding |-> FALSE, parsed |-> of_big_endian(<<>>)]

\* The state after of_little_endian(S) or of_big_endian(S), or with a text
\* a caller is about to parse; the other fields are filled by the calls
\* that follow.
InitCodec ==
    /\ comp = NoComponent
    /\ status = "ok"
    /\ lastOp = "new"
    /\ first = FALSE
    /\ batch = "none"
    /\ \/ \E S \in BoolSeqs, E \in BOOLEAN :
              codec = [BlankCodec EXCEPT
                          !.self = IF E THEN of_little_endian(S) ELSE of_big_endian(S)]
       \/ \E text \in Texts :
              codec = [BlankCodec EXCEPT !.step = "text", !.source = "text", !.raw = text]

\* Potentials::of_*(self.get_data(little_endian)): the value re-stored in the
\* endianness little_endian.
GetData(little_endian) ==
    /\ codec.step = "of"
    /\ LET data == get_data(codec.self, little_endian)
       IN  codec' = [codec EXCEPT !.self = IF little_endian THEN of_little_endian(data)
                                           ELSE of_big_endian(data)]
    /\ UNCHANGED <<comp, status, lastOp, first, batch>>

\* self.to_raw(little_endian, format_type); an aborted call returns no text.
ToRaw(little_endian, format_type) ==
    /\ codec.step = "of"
    /\ LET r == to_raw(codec.self, little_endian, format_type)
       IN  codec' = [codec EXCEPT !.step = IF r.panic THEN "panic" ELSE "to_raw",
                                  !.little_endian = little_endian,
                                  !.format_type = format_type,
                                  !.raw = IF r.panic THEN codec.raw ELSE r.value]
    /\ UNCHANGED <<comp, status, lastOp, first, batch>>

\* Potentials::from_little_endian(raw, ignore_padding) on the rendered text
\* or on the caller's text; an aborted call returns no value.
FromLittleEndian(ignore_padding) ==
    /\ codec.step \in {"to_raw", "text"}
    /\ LET r == from_little_endian(codec.raw, ignore_padding)
       IN  codec' = [codec EXCEPT !.step = IF r.panic THEN "panic"
                                           ELSE "from_little_endian",
                                  !.ignore_padding = ignore_padding,
                                  !.parsed = IF r.panic THEN codec.parsed ELSE r.value]
    /\ UNCHANGED <<comp, status, lastOp, first, batch>>

\* Potentials::from_big_endian(raw, ignore_padding) on the rendered text or
\* on the caller's text; an aborted call returns no value.
FromBigEndian(ignore_padding) ==
    /\ codec.step \in {"to_raw", "text"}
    /\ LET r == from_big_endian(codec.raw, ignore_padding)
       IN  codec' = [codec EXCEPT !.step = IF r.panic THEN "panic"
                                           ELSE "from_big_endian",
                                  !.ignore_padding = ignore_padding,
                                  !.parsed = IF r.panic THEN codec.parsed ELSE r.value]
    /\ UNCHANGED <<comp, status, lastOp, first, batch>>

NextCodec ==
    \/ \E little_endian \in BOOLEAN : GetData(little_endian)
    \/ \E little_endian \in BOOLEAN, format_type \in 0..MaxFormatType :
           ToRaw(little_endian, format_type)
    \/ \E ignore_padding \in BOOLEAN : FromLittleEndian(ignore_padding)
    \/ \E ignore_padding \in BOOLEAN : FromBigEndian(ignore_padding)

SpecCodec == InitCodec /\ [][NextCodec]_vars

\* ------------------------------------------------------------------ gate driver
\* A Wire and one gate of each type, as their Default gives them; args holds
\* the arguments of the last call.
InitGates ==
    /\ comp = [kind |-> "primitives", input |-> <<>>, output |-> <<>>,
               args |-> <<>>,
               wire |-> Wire_default, and_gate |-> Wire_default,
               or_gate |-> Wire_default, not_gate |-> Wire_default,
               xor_gate |-> Wire_default, nand_gate |-> Wire_default,
               nor_gate |-> Wire_default]
    /\ status = "ok"
    /\ lastOp = "new"
    /\ first = FALSE
    /\ batch = "none"
    /\ codec = NoCodec

\* The effect of a call with arguments args that left the primitives as c.
PrimitiveCalled(op, args, c) ==
    /\ comp.kind = "primitives"
    /\ comp' = [c EXCEPT !.args = args]
    /\ lastOp' = op
    /\ UNCHANGED <<status, first, batch, codec>>

WireNew(potential) ==
    PrimitiveCalled("Wire::new", <<potential>>,
                    [comp EXCEPT !.wire = Wire_new(potential)])

WireInput(potential) ==
    PrimitiveCalled("Wire::input", <<potential>>,
                    [comp EXCEPT !.wire = Wire_input(comp.wire, potential)])

ANDGateInput(a, b) ==
    PrimitiveCalled("ANDGate::input", <<a, b>>,
                    [comp EXCEPT !.and_gate = ANDGate_input(comp.and_gate, a, b)])

ORGateInput(a, b) ==
    PrimitiveCalled("ORGate::input", <<a, b>>,
                    [comp EXCEPT !.or_gate = ORGate_input(comp.or_gate, a, b)])

NOTGateInput(a) ==
    PrimitiveCalled("NOTGate::input", <<a>>,
                    [comp EXCEPT !.not_gate = NOTGate_input(comp.not_gate, a)])

XORGateInput(a, b) ==
    PrimitiveCalled("XORGate::input", <<a, b>>,
                    [comp EXCEPT !.xor_gate = XORGate_input(comp.xor_gate, a, b)])

NANDGateInput(a, b) ==
    PrimitiveCalled("NANDGate::input", <<a, b>>,
                    [comp EXCEPT !.nand_gate = NANDGate_input(comp.nand_gate, a, b)])

NORGateInput(a, b) ==
    PrimitiveCalled("NORGate::input", <<a, b>>,
                    [comp EXCEPT !.nor_gate = NORGate_input(comp.nor_gate, a, b)])

NextGates ==
    \/ \E potential \in BOOLEAN : WireNew(potential)
    \/ \E potential \in BOOLEAN : WireInput(potential)
    \/ \E a \in BOOLEAN, b \in BOOLEAN : ANDGateInput(a, b)
    \/ \E a \in BOOLEAN, b \in BOOLEAN : ORGateInput(a, b)
    \/ \E a \in BOOLEAN : NOTGateInput(a)
    \/ \E a \in BOOLEAN, b \in BOOLEAN : XORGateInput(a, b)
    \/ \E a \in BOOLEAN, b \in BOOLEAN : NANDGateInput(a, b)
    \/ \E a \in BOOLEAN, b \in BOOLEAN : NORGateInput(a, b)

SpecGates == InitGates /\ [][NextGates]_vars

\* ------------------------------------------------------------------ library driver
\* A caller of the whole library: a component behind the Component
\* interface, or the wire and the gates.
InitAll == Init \/ InitGates

NextAll ==
    \/ comp.kind # "primitives" /\ Next
    \/ NextGates

SpecAll == InitAll /\ [][NextAll]_vars

\* ------------------------------------------------------------------ decoder-encoder driver
\* A caller that owns a Decoder2_4 and an Encoder4_2 and can feed the
\* decoder's outputs to the encoder.
InitChain ==
    /\ comp = [kind |-> "Decoder2_4, Encoder4_2", input |-> <<>>, output |-> <<>>,
               decoder |-> Decoder2_4_default, encoder |-> Encoder4_2_default]
    /\ status = "ok"
    /\ lastOp = "new"
    /\ first = FALSE
    /\ batch = "none"
    /\ codec = NoCodec

\* The effect of a call given a vector of size `size` that left the pair as c.
ChainCalled(op, size, panic, c) ==
    /\ comp.kind = "Decoder2_4, Encoder4_2"
    /\ status = "ok"
    /\ comp' = c
    /\ status' = IF panic THEN "panic" ELSE "ok"
    /\ lastOp' = op
    /\ first' = (lastOp = "new")
    /\ batch' = size
    /\ UNCHANGED codec

\* decoder.fire(&vec)
DecoderFire(vec) ==
    LET r == Component_fire(comp.decoder, vec)
    IN  ChainCalled("decoder.fire", BatchSize(comp.decoder, vec), r.panic, [comp EXCEPT !.decoder = r.comp])

\* encoder.fire(&vec)
EncoderFire(vec) ==
    LET r == Component_fire(comp.encoder, vec)
    IN  ChainCalled("encoder.fire", BatchSize(comp.encoder, vec), r.panic, [comp EXCEPT !.encoder = r.comp])

\* encoder.fire(&decoder.output())
EncoderFireDecoded ==
    LET vec == Component_output(comp.decoder)
        r == Component_fire(comp.encoder, vec)
    IN  ChainCalled("encoder.fire(decoder.output)", BatchSize(comp.encoder, vec), r.panic,
                    [comp EXCEPT !.encoder = r.comp])

NextChain ==
    \/ \E vec \in BatchVectors(2) : DecoderFire(vec)
    \/ \E vec \in BatchVectors(4) : EncoderFire(vec)
    \/ EncoderFireDecoded

SpecChain == InitChain /\ [][NextChain]_vars

\* ------------------------------------------------------------------ claims
\* The number a little-endian bit sequence encodes: sum of bits[i] * 2^(i-1).
RECURSIVE BitsValue(_)
BitsValue(bits) ==
    IF Len(bits) = 0 THEN 0
    ELSE (IF bits[1] THEN 1 ELSE 0) + 2 * BitsValue(SubSeq(bits, 2, Len(bits)))

\* C1: after fire, the n sum pins and the carry-out pin of a
\* RippleCarryAdder(n), n >= 1, read LSB-first, encode A + B + carry-in of
\* the stored pins (carry-in pin 0, A pins 1..n, B pins n+1..2n).
C1_RippleCarryAdds ==
    (/\ comp.kind = "RippleCarryAdder"
     /\ status = "ok"
     /\ lastOp = "fire"
     /\ comp.n_way >= 1)
    => LET n == comp.n_way
           carry_in == IF comp.input[1] THEN 1 ELSE 0
           A == BitsValue(SubSeq(comp.input, 2, n + 1))
           B == BitsValue(SubSeq(comp.input, n + 2, 2 * n + 1))
       IN  BitsValue(Component_output(comp)) = A + B + carry_in

\* C1 witness: a 2-bit adder fired with carry-in 1, A = 3, B = 1 holds 5.
C1_Witness ==
    /\ comp.kind = "RippleCarryAdder"
    /\ lastOp = "fire"
    /\ comp.n_way = 2
    /\ comp.input = <<TRUE, TRUE, TRUE, TRUE, FALSE>>
    /\ comp.output = <<TRUE, FALSE, TRUE>>

TruthTableRow(c) ==
    LET in(k) == c.input[k + 1]
    IN  CASE c.kind = "Decoder1_2" -> <<~in(0), in(0)>>
          [] c.kind = "Decoder2_4" ->
                 <<~in(1) /\ ~in(0), ~in(1) /\ in(0), in(1) /\ ~in(0), in(1) /\ in(0)>>
          [] c.kind = "Encoder2_1" -> <<in(1)>>
          [] c.kind = "Encoder4_2" -> <<in(1) \/ in(3), in(2) \/ in(3)>>
          [] c.kind = "PriorityEncoder4_2" ->
                 <<in(3) \/ (in(1) /\ ~in(2)), in(3) \/ in(2),
                   in(0) \/ in(1) \/ in(2) \/ in(3)>>
          [] c.kind = "EnablerN" -> [i \in 1..c.n_way |-> c.input[i] /\ c.input[c.n_way + 1]]

\* C3: on a freshly constructed Decoder1_2, Decoder2_4, Encoder2_1,
\* Encoder4_2, PriorityEncoder4_2 or EnablerN, a batch input alone (no
\* update_state, no fire) is followed by output() returning the truth-table
\* row of the values written.
C3_InputAloneGivesRow ==
    (/\ comp.kind \in {"Decoder1_2", "Decoder2_4", "Encoder2_1", "Encoder4_2",
                       "PriorityEncoder4_2", "EnablerN"}
     /\ status = "ok"
     /\ first
     /\ lastOp = "input")
    => Component_output(comp) = TruthTableRow(comp)

\* C4: after fire, the validity flag output[2] of a PriorityEncoder4_2 is
\* high iff at least one of its four inputs is high.
C4_ValidIffAnyInput ==
    (/\ comp.kind = "PriorityEncoder4_2"
     /\ status = "ok"
     /\ lastOp = "fire")
    => (Pin(comp.output, 2) <=> \E k \in 0..3 : Pin(comp.input, k))

\* The index of the highest-numbered high pin of a sequence with a high pin.
HighestHigh(wires) ==
    CHOOSE k \in 0..(Len(wires) - 1) :
        /\ Pin(wires, k)
        /\ \A j \in (k + 1)..(Len(wires) - 1) : ~Pin(wires, j)

\* C5: after fire with some input high, the code bits output[0] (bit 0) and
\* output[1] (bit 1) of a PriorityEncoder4_2 are the binary index of the
\* highest-numbered high input, whatever the lower inputs are.
C5_CodeOfHighestPriority ==
    (/\ comp.kind = "PriorityEncoder4_2"
     /\ status = "ok"
     /\ lastOp = "fire"
     /\ \E k \in 0..3 : Pin(comp.input, k))
    => BitsValue(SubSeq(Component_output(comp), 1, 2)) = HighestHigh(comp.input)

\* C5 witness: I0, I1 and I2 high, I3 low: the code is 2 (bit0 = 0, bit1 = 1).
C5_Witness ==
    /\ comp.kind = "PriorityEncoder4_2"
    /\ lastOp = "fire"
    /\ comp.input = <<TRUE, TRUE, TRUE, FALSE>>
    /\ Pin(comp.output, 0) = FALSE
    /\ Pin(comp.output, 1) = TRUE

\* The group size of a format_type: 0 none, 1 nibble, 2 byte.
GroupSize(format_type) ==
    CASE format_type = 0 -> 1 [] format_type = 1 -> 4 [] format_type = 2 -> 8

\* S tagged E was rendered with to_raw(E, format_type) and the text parsed
\* with the from_* of the same endianness E, ignore_padding = false.
RoundTripDone ==
    /\ codec.source = "of"
    /\ codec.step \in {"from_little_endian", "from_big_endian"}
    /\ codec.little_endian = codec.self.little_endian
    /\ (codec.step = "from_little_endian") = codec.self.little_endian
    /\ ~codec.ignore_padding

\* C6 as stated: the round trip gives a Potentials whose stored sequence is
\* exactly S, for every S, E and format_type 0, 1 or 2.
C6_RoundTripExact ==
    RoundTripDone => codec.parsed.data = codec.self.data

\* C6 as amended: the round trip gives S extended with zeros to the next
\* multiple of the group size (appended for little-endian, prepended for
\* big-endian), tagged E; so it gives exactly S iff format_type is 0 or
\* len(S) is a multiple of the group size.
C6_RoundTripPadded ==
    RoundTripDone =>
        LET S == codec.self.data
            group == GroupSize(codec.format_type)
            pad == (group - (Len(S) % group)) % group
            zeros == [i \in 1..pad |-> FALSE]
        IN  /\ codec.parsed.little_endian = codec.self.little_endian
            /\ codec.parsed.data =
                   IF codec.self.little_endian THEN S \o zeros ELSE zeros \o S
            /\ (codec.parsed.data = S) <=> (Len(S) % group = 0)

\* C6 witness: a little-endian S of 8 bits, not a palindrome, rendered in
\* nibbles (with a space between the groups) and parsed back to S.
C6_Witness ==
    /\ RoundTripDone
    /\ codec.self.little_endian
    /\ codec.format_type = 1
    /\ Len(codec.self.data) = 8
    /\ codec.self.data[1] /\ ~codec.self.data[8]
    /\ \E i \in 1..Len(codec.raw) : codec.raw[i] = " "
    /\ codec.parsed.data = codec.self.data

\* C7: set_pin_input with position >= the input pin count, get_pin_output
\* with position >= the output pin count and a batch input of more values
\* than input pins each abort, and at the abort the component is as it was
\* (an oversized batch writes none of its values).
C7_ViolationsAbortWhole ==
    [][/\ \A value \in BOOLEAN :
              SetPinInput(get_pin_count(comp)[1], value) =>
                  status' = "panic" /\ comp' = comp
       /\ GetPinOutput(get_pin_count(comp)[2]) =>
              status' = "panic" /\ comp' = comp
       /\ (lastOp' = "input" /\ batch' = "long") =>
              status' = "panic" /\ comp' = comp
       /\ (status' = "panic" /\ lastOp' \in {"set_pin_input", "get_pin_output", "input"})
              => comp' = comp
      ]_vars

\* C7 witness: a Decoder2_4 that was updated (an output is high) and then
\* aborted in a batch input.
C7_Witness ==
    /\ comp.kind = "Decoder2_4"
    /\ status = "panic"
    /\ lastOp = "input"
    /\ comp.input = <<FALSE, TRUE>>
    /\ comp.output = <<FALSE, FALSE, TRUE, FALSE>>

\* The component as its constructor returns it, with the same type and n_way.
FreshLike(c) ==
    CASE c.kind = "HalfAdder" -> HalfAdder_default
      [] c.kind = "FullAdder" -> FullAdder_default
      [] c.kind = "RippleCarryAdder" -> RippleCarryAdder_new(c.n_way)
      [] c.kind = "ANDGate3" -> ANDGate3_default
      [] c.kind = "ORGate3" -> ORGate3_default
      [] c.kind = "ANDGateN" -> ANDGateN_new(c.n_way)
      [] c.kind = "Decoder1_2" -> Decoder1_2_default
      [] c.kind = "Decoder2_4" -> Decoder2_4_default
      [] c.kind = "Encoder2_1" -> Encoder2_1_default
      [] c.kind = "Encoder4_2" -> Encoder4_2_default
      [] c.kind = "PriorityEncoder4_2" -> PriorityEncoder4_2_default
      [] c.kind = "EnablerN" -> EnablerN_new(c.n_way)

\* C8: the outputs read after an update_state (or fire) depend only on the
\* input pins stored at that moment: they are the outputs a new component
\* of the same type gives for these inputs, whatever calls came before (so
\* a second update_state with unchanged inputs leaves them identical).
C8_UpdateIsFunctionOfInputs ==
    (/\ comp.kind # "none"
     /\ status = "ok"
     /\ lastOp \in {"update_state", "fire"})
    => Component_output(comp) =
           Component_output(
               update_state([FreshLike(comp) EXCEPT !.input = comp.input]).comp)

\* C8 witness: a FullAdder updated after earlier calls, its second half
\* adder holding a carry, and outputs sum = 0, carry = 1.
C8_Witness ==
    /\ comp.kind = "FullAdder"
    /\ status = "ok"
    /\ lastOp = "update_state"
    /\ ~first
    /\ comp.input = <<TRUE, FALSE, TRUE>>
    /\ comp.output = <<FALSE, TRUE>>

\* C9: after fire, output k of a Decoder2_4 is high iff the 2-bit input
\* (pin 0 = LSB) has the value k, so exactly one output is high; for a
\* Decoder1_2, output[0] = NOT in0 and output[1] = in0.
C9_DecodersOneHot ==
    /\ (comp.kind = "Decoder2_4" /\ status = "ok" /\ lastOp = "fire") =>
           /\ \A k \in 0..3 : Pin(comp.output, k) <=> (BitsValue(comp.input) = k)
           /\ Cardinality({k \in 0..3 : Pin(comp.output, k)}) = 1
    /\ (comp.kind = "Decoder1_2" /\ status = "ok" /\ lastOp = "fire") =>
           /\ Pin(comp.output, 0) = ~Pin(comp.input, 0)
           /\ Pin(comp.output, 1) = Pin(comp.input, 0)

\* C9 witness: a Decoder2_4 fired with (0, 1), value 2: only output 2 is high.
C9_Witness ==
    /\ comp.kind = "Decoder2_4"
    /\ lastOp = "fire"
    /\ comp.input = <<FALSE, TRUE>>
    /\ comp.output = <<FALSE, FALSE, TRUE, FALSE>>

\* C10: fire with any of the 16 input combinations never aborts on an
\* Encoder4_2 and gives output[0] = I1 OR I3, output[1] = I2 OR I3; with
\* only line k high the outputs are the binary index of k (bit 0 first).
\* Encoder2_1 fired with any of its 4 combinations gives output[0] = I1.
C10_EncodersOrTree ==
    [][/\ comp.kind = "Encoder4_2" =>
              \A vec \in [1..4 -> BOOLEAN] :
                  Fire(vec) =>
                      /\ status' = "ok"
                      /\ Pin(comp'.output, 0) = (vec[2] \/ vec[4])
                      /\ Pin(comp'.output, 1) = (vec[3] \/ vec[4])
                      /\ \A k \in 0..3 :
                             vec = [i \in 1..4 |-> i = k + 1] =>
                                 BitsValue(Component_output(comp')) = k
       /\ comp.kind = "Encoder2_1" =>
              \A vec \in [1..2 -> BOOLEAN] :
                  Fire(vec) =>
                      /\ status' = "ok"
                      /\ Pin(comp'.output, 0) = vec[2]
      ]_vars

\* C10 witness: an Encoder4_2 fired with the non-one-hot input I1 and I2
\* high gives (1, 1) and has not aborted.
C10_Witness ==
    /\ comp.kind = "Encoder4_2"
    /\ status = "ok"
    /\ lastOp = "fire"
    /\ comp.input = <<FALSE, TRUE, TRUE, FALSE>>
    /\ comp.output = <<TRUE, TRUE>>

\* C11: after fire, every output i of an EnablerN(n) is data input i AND the
\* switcher (pin n): with the switcher high the outputs are the data, with
\* the switcher low all n outputs are low whatever the data.
C11_EnablerGatesData ==
    (/\ comp.kind = "EnablerN"
     /\ status = "ok"
     /\ lastOp = "fire")
    => LET n == comp.n_way
           switcher == Pin(comp.input, n)
           data == SubSeq(comp.input, 1, n)
       IN  /\ Len(Component_output(comp)) = n
           /\ \A i \in 0..(n - 1) :
                  Pin(comp.output, i) = (Pin(comp.input, i) /\ switcher)
           /\ switcher => Component_output(comp) = data
           /\ ~switcher => \A i \in 0..(n - 1) : ~Pin(comp.output, i)

\* C11 witness: an EnablerN(3) used before, fired with data (1, 0, 1) and
\* the switcher low: every output is low.
C11_Witness ==
    /\ comp.kind = "EnablerN"
    /\ status = "ok"
    /\ lastOp = "fire"
    /\ ~first
    /\ comp.n_way = 3
    /\ comp.input = <<TRUE, FALSE, TRUE, FALSE>>
    /\ comp.output = <<FALSE, FALSE, FALSE>>

\* The number of high pins of a sequence of wires.
HighCount(wires) == Cardinality({i \in 1..Len(wires) : Wire_output(wires[i])})

\* C12: after update_state on the stored inputs (a, b) of a HalfAdder or
\* (a, b, cin) of a FullAdder, output[0] (sum) + 2 * output[1] (carry) is
\* the number of high input pins; for the HalfAdder sum = a XOR b and
\* carry = a AND b.
C12_AdderCellsCount ==
    (/\ comp.kind \in {"HalfAdder", "FullAdder"}
     /\ status = "ok"
     /\ lastOp \in {"update_state", "fire"})
    => /\ Len(Component_output(comp)) = 2
       /\ BitsValue(Component_output(comp)) = HighCount(comp.input)
       /\ comp.kind = "HalfAdder" =>
              /\ Pin(comp.output, 0) = (Pin(comp.input, 0) # Pin(comp.input, 1))
              /\ Pin(comp.output, 1) = (Pin(comp.input, 0) /\ Pin(comp.input, 1))

\* C12 witness: a FullAdder with its three inputs high, set pin by pin or
\* by input, then updated: sum = 1, carry = 1.
C12_Witness ==
    /\ comp.kind = "FullAdder"
    /\ status = "ok"
    /\ lastOp = "update_state"
    /\ comp.input = <<TRUE, TRUE, TRUE>>
    /\ comp.output = <<TRUE, TRUE>>

\* C13: after update_state on its stored inputs, an ANDGate3 outputs the AND
\* of its 3 inputs, an ORGate3 the OR of its 3 inputs and an ANDGateN(n),
\* n >= 2, the AND of all n inputs; an ANDGateN(3) outputs what an ANDGate3
\* outputs for the same inputs.
C13_WideGates ==
    (/\ status = "ok"
     /\ lastOp \in {"update_state", "fire"})
    => /\ comp.kind = "ANDGate3" =>
              Component_output(comp) = <<\A k \in 0..2 : Pin(comp.input, k)>>
       /\ comp.kind = "ORGate3" =>
              Component_output(comp) = <<\E k \in 0..2 : Pin(comp.input, k)>>
       /\ (comp.kind = "ANDGateN" /\ comp.n_way >= 2) =>
              Component_output(comp) =
                  <<\A k \in 0..(comp.n_way - 1) : Pin(comp.input, k)>>
       /\ (comp.kind = "ANDGateN" /\ comp.n_way = 3) =>
              Component_output(comp) =
                  Component_output(
                      ANDGate3_update_state([ANDGate3_default EXCEPT !.input = comp.input]))

\* C13 witness: an ANDGateN(3) whose first two inputs are high and whose
\* last is low, updated: the output is low.
C13_Witness ==
    /\ comp.kind = "ANDGateN"
    /\ status = "ok"
    /\ lastOp = "update_state"
    /\ comp.n_way = 3
    /\ comp.input = <<TRUE, TRUE, FALSE>>
    /\ comp.output = <<FALSE>>

\* s is t read last element first, element by element.
IsReversalOf(s, t) ==
    /\ Len(s) = Len(t)
    /\ \A i \in 1..Len(t) : s[i] = t[Len(t) + 1 - i]

\* The bit a character of an unformatted text renders.
BitOf(ch) == (ch = "1")

\* C14: for a Potentials value stored as (data, E), get_data(e) and the bits
\* of to_raw(e, 0) are data unchanged when e = E and data exactly reversed
\* when e # E; the length is kept; and converting the value to the opposite
\* endianness and then back again gives data in its original order.
C14_EndiannessIsReversal ==
    [][/\ \A e \in BOOLEAN :
              GetData(e) =>
                  /\ Len(codec'.self.data) = Len(codec.self.data)
                  /\ codec'.self.little_endian = e
                  /\ (e = codec.self.little_endian) => codec'.self.data = codec.self.data
                  /\ (e # codec.self.little_endian) =>
                         /\ IsReversalOf(codec'.self.data, codec.self.data)
                         /\ get_data(codec'.self, codec.self.little_endian) = codec.self.data
       /\ \A e \in BOOLEAN :
              ToRaw(e, 0) =>
                  LET bits == [i \in 1..Len(codec'.raw) |-> BitOf(codec'.raw[i])]
                  IN  /\ codec'.step = "to_raw"
                      /\ \A i \in 1..Len(codec'.raw) : codec'.raw[i] \in {"0", "1"}
                      /\ (e = codec.self.little_endian) => bits = codec.self.data
                      /\ (e # codec.self.little_endian) => IsReversalOf(bits, codec.self.data)
      ]_vars

\* C14 witness: the big-endian value (1, 0, 0) rendered little-endian with
\* no grouping reads "001".
C14_Witness ==
    /\ codec.source = "of"
    /\ codec.step = "to_raw"
    /\ codec.self = of_big_endian(<<TRUE, FALSE, FALSE>>)
    /\ codec.little_endian
    /\ codec.format_type = 0
    /\ codec.raw = <<"0", "0", "1">>

\* The text of a bit sequence whose length is a multiple of group: the bits
\* in groups of `group` characters, one space between consecutive groups.
GroupedText(bits, group) ==
    LET groups == Len(bits) \div group
        length == Len(bits) + (IF groups > 0 THEN groups - 1 ELSE 0)
    IN  [j \in 1..length |->
            IF j % (group + 1) = 0 THEN " "
            ELSE IF bits[j - (j \div (group + 1))] THEN "1" ELSE "0"]

\* C15: to_raw(e, f) with f = 1 (groups of 4) or f = 2 (groups of 8)
\* renders the sequence in endianness e, padded with zeros to the next
\* multiple of the group size (zeros first for big-endian output, last for
\* little-endian output), one space between consecutive groups, no leading
\* or trailing space; with f = 0 it renders exactly len() characters, no
\* padding and no space.
C15_GroupedSerialization ==
    (/\ codec.source = "of"
     /\ codec.step = "to_raw")
    => LET e == codec.little_endian
           f == codec.format_type
           S == codec.self.data
           ordered == IF e = codec.self.little_endian
                      THEN S ELSE [i \in 1..Len(S) |-> S[Len(S) + 1 - i]]
           group == GroupSize(f)
           pad == (group - (Len(S) % group)) % group
           zeros == [i \in 1..pad |-> FALSE]
           padded == IF e THEN ordered \o zeros ELSE zeros \o ordered
           raw == codec.raw
       IN  /\ f \in {1, 2} =>
                  /\ raw = GroupedText(padded, group)
                  /\ Len(raw) > 0 => raw[1] # " " /\ raw[Len(raw)] # " "
                  /\ \A j \in 1..(Len(raw) - 1) : ~(raw[j] = " " /\ raw[j + 1] = " ")
           /\ f = 0 =>
                  /\ Len(raw) = Len(S)
                  /\ \A j \in 1..Len(raw) : raw[j] = (IF ordered[j] THEN "1" ELSE "0")

\* C15 witness: the big-endian value (1, 1, 1, 1, 0) rendered big-endian in
\* nibbles is "0001 1110": three padding zeros first, one space.
C15_Witness ==
    /\ codec.source = "of"
    /\ codec.step = "to_raw"
    /\ codec.self = of_big_endian(<<TRUE, TRUE, TRUE, TRUE, FALSE>>)
    /\ ~codec.little_endian
    /\ codec.format_type = 1
    /\ codec.raw = <<"0", "0", "0", "1", " ", "1", "1", "1", "0">>

\* The text has a character other than '0', '1' and ' '.
HasInvalid(text) == \E i \in 1..Len(text) : text[i] \notin {"0", "1", " "}

\* The text without its spaces.
NoSpaces(text) == SelectSeq(text, LAMBDA ch : ch # " ")

\* C16: from_little_endian and from_big_endian abort, returning no value, on
\* every text with a character other than '0', '1' and ' '; on the other
\* texts they return what they return for the text without its spaces
\* (with ignore_padding = false, one bit per '0' or '1', in text order);
\* to_raw aborts, returning no text, for every format_type above 2.
C16_CodecViolationsAbort ==
    [][/\ \A ignore_padding \in BOOLEAN :
              FromLittleEndian(ignore_padding) =>
                  IF HasInvalid(codec.raw)
                  THEN codec'.step = "panic" /\ codec'.parsed = codec.parsed
                  ELSE /\ codec'.step = "from_little_endian"
                       /\ codec'.parsed =
                              from_little_endian(NoSpaces(codec.raw), ignore_padding).value
                       /\ ~ignore_padding =>
                              codec'.parsed.data =
                                  [i \in 1..Len(NoSpaces(codec.raw)) |->
                                      BitOf(NoSpaces(codec.raw)[i])]
       /\ \A ignore_padding \in BOOLEAN :
              FromBigEndian(ignore_padding) =>
                  IF HasInvalid(codec.raw)
                  THEN codec'.step = "panic" /\ codec'.parsed = codec.parsed
                  ELSE /\ codec'.step = "from_big_endian"
                       /\ codec'.parsed =
                              from_big_endian(NoSpaces(codec.raw), ignore_padding).value
                       /\ ~ignore_padding =>
                              codec'.parsed.data =
                                  [i \in 1..Len(NoSpaces(codec.raw)) |->
                                      BitOf(NoSpaces(codec.raw)[i])]
       /\ \A little_endian \in BOOLEAN, format_type \in 3..MaxFormatType :
              ToRaw(little_endian, format_type) =>
                  codec'.step = "panic" /\ codec'.raw = codec.raw
      ]_vars

\* C16 witness: a text whose only invalid character is its last, after
\* bits and a space, on which the parse has aborted.
C16_Witness ==
    /\ codec.source = "text"
    /\ codec.step = "panic"
    /\ codec.raw = <<"1", "0", " ", "1", "x">>
    /\ codec.parsed = of_big_endian(<<>>)

\* The bits of a text of '0', '1' and ' ', in text order.
TextBits(text) == [i \in 1..Len(NoSpaces(text)) |-> BitOf(NoSpaces(text)[i])]

\* The positions of the high bits of a sequence.
Ones(bits) == {i \in 1..Len(bits) : bits[i]}

\* The least and the greatest element of a non-empty set of numbers.
Least(S) == CHOOSE x \in S : \A y \in S : x <= y
Greatest(S) == CHOOSE x \in S : \A y \in S : x >= y

\* C17: with ignore_padding = true, from_big_endian gives the text's bits in
\* text order without the zeros before the first '1', from_little_endian
\* gives them in text order without the zeros after the last '1'; nothing
\* else is removed, and a text with no '1' gives the empty sequence.
C17_PaddingStripped ==
    (/\ codec.step \in {"from_little_endian", "from_big_endian"}
     /\ codec.ignore_padding)
    => LET bits == TextBits(codec.raw)
           ones == Ones(bits)
       IN  /\ ones = {} => codec.parsed.data = <<>>
           /\ (ones # {} /\ codec.step = "from_big_endian") =>
                  codec.parsed.data = SubSeq(bits, Least(ones), Len(bits))
           /\ (ones # {} /\ codec.step = "from_little_endian") =>
                  codec.parsed.data = SubSeq(bits, 1, Greatest(ones))

\* C17 witness: the text "010 10" parsed by from_little_endian with
\* ignore_padding = true gives (0, 1, 0, 1): only the last zero is removed.
C17_Witness ==
    /\ codec.source = "text"
    /\ codec.step = "from_little_endian"
    /\ codec.ignore_padding
    /\ codec.raw = <<"0", "1", "0", " ", "1", "0">>
    /\ codec.parsed = of_little_endian(<<FALSE, TRUE, FALSE, TRUE>>)

\* A RippleCarryAdder(2) fired with carry-in 0, A = 3 (pins 1, 2 = 1, 1) and
\* B = 2 (pins 3, 4 = 0, 1), the operand bits LSB first on the pins.
FiredThreePlusTwo ==
    /\ comp.kind = "RippleCarryAdder"
    /\ comp.n_way = 2
    /\ status = "ok"
    /\ lastOp = "fire"
    /\ comp.input = <<FALSE, TRUE, TRUE, FALSE, TRUE>>

\* C18 as stated: the adder ends with output[0] = 0, output[1] = 1 and the
\* carry-out output[2] = 1.
C18_LiteralAsStated ==
    FiredThreePlusTwo => Component_output(comp) = <<FALSE, TRUE, TRUE>>

\* C18 as amended: the adder ends with output[0] = 1, output[1] = 0 and the
\* carry-out output[2] = 1: the pins hold 5 = 3 + 2, LSB first.
C18_LiteralFive ==
    FiredThreePlusTwo =>
        /\ Component_output(comp) = <<TRUE, FALSE, TRUE>>
        /\ BitsValue(Component_output(comp)) = 3 + 2

\* C18 witness: the adder, used before, fired with 0, 3 and 2 and holding 5.
C18_Witness ==
    /\ FiredThreePlusTwo
    /\ ~first
    /\ comp.output = <<TRUE, FALSE, TRUE>>

\* The truth tables of the two-input gates, rows (a, b) = (0,0), (1,0),
\* (0,1), (1,1), and of NOT, rows a = 0, 1.
TruthTable ==
    [AND  |-> <<FALSE, FALSE, FALSE, TRUE>>,
     OR   |-> <<FALSE, TRUE, TRUE, TRUE>>,
     XOR  |-> <<FALSE, TRUE, TRUE, FALSE>>,
     NAND |-> <<TRUE, TRUE, TRUE, FALSE>>,
     NOR  |-> <<TRUE, FALSE, FALSE, FALSE>>,
     NOT  |-> <<TRUE, FALSE>>]

\* The row of the truth table the arguments of a call select.
Row(args) ==
    1 + (IF args[1] THEN 1 ELSE 0) + (IF Len(args) > 1 /\ args[2] THEN 2 ELSE 0)

\* C19: after input(a, b) (input(a) for NOT) the output() of an ANDGate,
\* ORGate, XORGate, NANDGate, NORGate, NOTGate is the entry of its truth
\* table for (a, b), for all inputs and whatever the gate held before; and
\* the output() of a Wire is the value last written to it by input (or
\* given to new), whatever was done to the gates since.
C19_GateTruthTables ==
    [][/\ \A a \in BOOLEAN, b \in BOOLEAN :
              /\ ANDGateInput(a, b) =>
                     Gate_output(comp'.and_gate) = TruthTable.AND[Row(<<a, b>>)]
              /\ ORGateInput(a, b) =>
                     Gate_output(comp'.or_gate) = TruthTable.OR[Row(<<a, b>>)]
              /\ XORGateInput(a, b) =>
                     Gate_output(comp'.xor_gate) = TruthTable.XOR[Row(<<a, b>>)]
              /\ NANDGateInput(a, b) =>
                     Gate_output(comp'.nand_gate) = TruthTable.NAND[Row(<<a, b>>)]
              /\ NORGateInput(a, b) =>
                     Gate_output(comp'.nor_gate) = TruthTable.NOR[Row(<<a, b>>)]
       /\ \A a \in BOOLEAN :
              /\ NOTGateInput(a) =>
                     Gate_output(comp'.not_gate) = TruthTable.NOT[Row(<<a>>)]
              /\ WireInput(a) => Wire_output(comp'.wire) = a
              /\ WireNew(a) => Wire_output(comp'.wire) = a
       /\ (comp.kind = "primitives" /\ lastOp' \notin {"Wire::input", "Wire::new"}) =>
              Wire_output(comp'.wire) = Wire_output(comp.wire)
      ]_vars

\* C19 witness: a NAND gate given (1, 1) reads low while the wire, written
\* high earlier, still reads high.
C19_Witness ==
    /\ comp.kind = "primitives"
    /\ lastOp = "NANDGate::input"
    /\ comp.args = <<TRUE, TRUE>>
    /\ Gate_output(comp.nand_gate) = FALSE
    /\ Wire_output(comp.wire) = TRUE

\* Every internal gate of c holds its operator applied to the present values
\* of the signals wired to it, every sub-component of c has on its input
\* pins the present values of the signals wired to them and is itself
\* settled, and the output pins of c hold the present values of the gates
\* or sub-component outputs wired to them.
RECURSIVE Settled(_)
Settled(c) ==
    LET in(k) == Pin(c.input, k)
    IN  CASE c.kind = "HalfAdder" ->
                 /\ c.xor_gate = (in(0) # in(1))
                 /\ c.and_gate = (in(0) /\ in(1))
                 /\ c.output = <<c.xor_gate, c.and_gate>>
          [] c.kind = "FullAdder" ->
                 LET ha1 == c.half_adder[1]
                     ha2 == c.half_adder[2]
                 IN  /\ ha1.input = <<in(0), in(1)>>
                     /\ Settled(ha1)
                     /\ ha2.input = <<Pin(ha1.output, 0), in(2)>>
                     /\ Settled(ha2)
                     /\ c.or_gate = (Pin(ha1.output, 1) \/ Pin(ha2.output, 1))
                     /\ c.output = <<Pin(ha2.output, 0), c.or_gate>>
          [] c.kind = "RippleCarryAdder" ->
                 /\ \A i \in 1..c.n_way :
                        /\ c.full_adders[i].input =
                               <<in(i), in(c.n_way + i),
                                 IF i = 1 THEN in(0)
                                 ELSE Pin(c.full_adders[i - 1].output, 1)>>
                        /\ Settled(c.full_adders[i])
                        /\ Pin(c.output, i - 1) = Pin(c.full_adders[i].output, 0)
                 /\ c.n_way >= 1 =>
                        Pin(c.output, c.n_way) = Pin(c.full_adders[c.n_way].output, 1)
          [] c.kind = "ANDGate3" ->
                 /\ c.and_gate[1] = (in(0) /\ in(1))
                 /\ c.and_gate[2] = (c.and_gate[1] /\ in(2))
                 /\ c.output = <<c.and_gate[2]>>
          [] c.kind = "ORGate3" ->
                 /\ c.or_gate[1] = (in(0) \/ in(1))
                 /\ c.or_gate[2] = (c.or_gate[1] \/ in(2))
                 /\ c.output = <<c.or_gate[2]>>
          [] c.kind = "ANDGateN" ->
                 /\ \A i \in 1..(c.n_way - 1) :
                        c.and_gate[i] =
                            ((IF i = 1 THEN in(0) ELSE c.and_gate[i - 1]) /\ in(i))
                 /\ c.n_way >= 2 => c.output = <<c.and_gate[c.n_way - 1]>>
          [] c.kind = "Decoder1_2" ->
                 /\ c.not_gate = ~in(0)
                 /\ c.output = <<c.not_gate, in(0)>>
          [] c.kind = "Decoder2_4" ->
                 /\ c.not_gate = <<~in(0), ~in(1)>>
                 /\ c.and_gate = <<c.not_gate[2] /\ c.not_gate[1], c.not_gate[2] /\ in(0),
                                   in(1) /\ c.not_gate[1], in(1) /\ in(0)>>
                 /\ c.output = c.and_gate
          [] c.kind = "Encoder2_1" -> c.output = <<in(1)>>
          [] c.kind = "Encoder4_2" ->
                 /\ c.or_gates = <<in(3) \/ in(1), in(3) \/ in(2)>>
                 /\ c.output = c.or_gates
          [] c.kind = "PriorityEncoder4_2" ->
                 /\ c.or_gate_1 = (in(3) \/ in(2))
                 /\ c.not_gate = ~in(2)
                 /\ c.and_gate = (in(1) /\ c.not_gate)
                 /\ c.or_gate_2 = (in(3) \/ c.and_gate)
                 /\ c.big_or.input = <<c.or_gate_1, in(0), in(1)>>
                 /\ Settled(c.big_or)
                 /\ c.output = <<c.or_gate_2, c.or_gate_1, Pin(c.big_or.output, 0)>>
          [] c.kind = "EnablerN" ->
                 /\ \A i \in 1..c.n_way :
                        /\ c.and_gates[i] = (in(i - 1) /\ in(c.n_way))
                        /\ c.output[i] = c.and_gates[i]
          [] OTHER -> TRUE

\* C20: when update_state (alone or in fire) of a composite has returned,
\* the composite is settled: every internal gate and sub-component holds an
\* output computed from the present values of the signals feeding it, none
\* holds a value of an earlier cycle or of construction.
C20_NoStaleInternal ==
    (/\ comp.kind \notin {"none", "primitives"}
     /\ status = "ok"
     /\ lastOp \in {"update_state", "fire"})
    => Settled(comp)

\* All composites but the PriorityEncoder4_2 are settled when their
\* update_state has returned.
SettledButPriorityEncoder ==
    (/\ comp.kind \notin {"none", "primitives", "PriorityEncoder4_2"}
     /\ status = "ok"
     /\ lastOp \in {"update_state", "fire"})
    => Settled(comp)

\* C21: every gate and every component, as default() or new(n) returns it
\* and before any input or update_state call, reads low on every output
\* pin, also those whose function of all-low inputs is not all-low
\* (NOTGate, NANDGate, NORGate, Decoder1_2, Decoder2_4).
C21_FreshReadsLow ==
    (/\ lastOp = "new"
     /\ status = "ok")
    => IF comp.kind = "primitives"
       THEN /\ ~Gate_output(comp.and_gate)
            /\ ~Gate_output(comp.or_gate)
            /\ ~Gate_output(comp.not_gate)
            /\ ~Gate_output(comp.xor_gate)
            /\ ~Gate_output(comp.nand_gate)
            /\ ~Gate_output(comp.nor_gate)
       ELSE /\ Len(Component_output(comp)) = get_pin_count(comp)[2]
            /\ \A position \in 0..(get_pin_count(comp)[2] - 1) :
                   /\ ~get_pin_output(comp, position).panic
                   /\ ~get_pin_output(comp, position).value

\* C21 witness: a Decoder2_4 just constructed: its address reads 0 and
\* output 0 is low all the same.
C21_Witness ==
    /\ lastOp = "new"
    /\ status = "ok"
    /\ comp.kind = "Decoder2_4"
    /\ BitsValue(comp.input) = 0
    /\ ~Pin(comp.output, 0)

\* C22: an ANDGateN needs n >= 2.  ANDGateN::new(0) aborts, so there is no
\* ANDGateN with n_way = 0; on an ANDGateN(1) every update_state (alone or
\* in fire) aborts, and its output pin still holds the constructor's low:
\* no output value is ever produced for n < 2.
C22_ANDGateNNeedsTwo ==
    /\ comp.kind = "ANDGateN" => comp.n_way >= 1
    /\ comp.kind = "none" => status = "panic" /\ lastOp = "new"
    /\ (comp.kind = "ANDGateN" /\ comp.n_way < 2) =>
           /\ lastOp \in {"update_state", "fire"} => status = "panic"
           /\ comp.output = Wires(1)
           /\ comp.and_gate = <<>>

\* C22 witness: an ANDGateN(1) whose input was set high and whose fire
\* aborted in update_state; the output is low.
C22_Witness ==
    /\ comp.kind = "ANDGateN"
    /\ comp.n_way = 1
    /\ status = "panic"
    /\ lastOp = "fire"
    /\ comp.input = <<TRUE>>
    /\ comp.output = <<FALSE>>

\* What a component of the type of c outputs once updated on the input
\* pins `wires`, by the documented function of its type where the claims
\* above established it (adders), else as a new component computes it.
OutputsFor(c, wires) ==
    IF c.kind = "RippleCarryAdder" /\ c.n_way >= 1
    THEN LET n == c.n_way
             total == (IF wires[1] THEN 1 ELSE 0)
                      + BitsValue(SubSeq(wires, 2, n + 1))
                      + BitsValue(SubSeq(wires, n + 2, 2 * n + 1))
         IN  [i \in 1..(n + 1) |-> (total \div (2 ^ (i - 1))) % 2 = 1]
    ELSE Component_output(update_state([FreshLike(c) EXCEPT !.input = wires]).comp)

\* C23: a batch input of len values, len less than the input pin count,
\* writes pins 0..len-1 and leaves every higher input pin as it was; an
\* update_state that follows (at once in fire, or as the next call)
\* computes the outputs from the new low pins together with the old high
\* pins (a RippleCarryAdder given only carry-in and A adds its previous B).
C23_PartialBatchKeepsHighPins ==
    [][LET pins == get_pin_count(comp)[1]
       IN  /\ (lastOp' = "input" /\ status' = "ok" /\ batch' = "short") =>
                  \A len \in 0..(pins - 1) :
                         Input(SubSeq(comp'.input, 1, len)) =>
                             comp'.input =
                                 SubSeq(comp'.input, 1, len) \o SubSeq(comp.input, len + 1, pins)
           /\ (lastOp' = "fire" /\ status' = "ok" /\ batch' = "short") =>
                  \A len \in 0..(pins - 1) :
                         Fire(SubSeq(comp'.input, 1, len)) =>
                             LET merged == SubSeq(comp'.input, 1, len)
                                               \o SubSeq(comp.input, len + 1, pins)
                             IN  /\ comp'.input = merged
                                 /\ Component_output(comp') = OutputsFor(comp, merged)
           /\ (lastOp = "input" /\ status = "ok" /\ batch = "short"
               /\ lastOp' = "update_state" /\ status' = "ok") =>
                  /\ comp'.input = comp.input
                  /\ Component_output(comp') = OutputsFor(comp, comp.input)
      ]_vars

\* C23 witness: a RippleCarryAdder(1) whose B pin was high, fired with the
\* two values (carry-in 0, A 0): B is still high and the sum is 1.
C23_Witness ==
    /\ comp.kind = "RippleCarryAdder"
    /\ comp.n_way = 1
    /\ status = "ok"
    /\ lastOp = "fire"
    /\ batch = "short"
    /\ comp.input = <<FALSE, FALSE, TRUE>>
    /\ comp.output = <<TRUE, FALSE>>

\* C24: for every 2-bit value x, firing the Decoder2_4 with x and then
\* firing the Encoder4_2 with the decoder's four outputs leaves the encoder
\* with outputs (bit 0, bit 1) equal to x, whatever either held before.
C24_DecodeEncodeIdentity ==
    [][\A x \in [1..2 -> BOOLEAN] :
           (/\ lastOp = "decoder.fire"
            /\ status = "ok"
            /\ batch = "full"
            /\ comp.decoder.input = x
            /\ EncoderFireDecoded)
           => /\ status' = "ok"
              /\ Component_output(comp'.encoder) = x
              /\ BitsValue(Component_output(comp'.encoder)) = BitsValue(x)
      ]_vars

\* C24 witness: the decoder fired with (0, 1), value 2, raised output 2
\* only; the encoder, fired with these four outputs, reads (0, 1).
C24_Witness ==
    /\ comp.kind = "Decoder2_4, Encoder4_2"
    /\ status = "ok"
    /\ lastOp = "encoder.fire(decoder.output)"
    /\ comp.decoder.input = <<FALSE, TRUE>>
    /\ comp.decoder.output = <<FALSE, FALSE, TRUE, FALSE>>
    /\ comp.encoder.input = comp.decoder.output
    /\ comp.encoder.output = <<FALSE, TRUE>>

\* C25: RippleCarryAdder::new(0) returns a component with pin count (1, 1);
\* every update_state on it, alone or in fire, aborts, and its output pin is
\* never written: it holds the constructor's low also when the carry-in
\* pin is high.
C25_ZeroWayAdderAborts ==
    (comp.kind = "RippleCarryAdder" /\ comp.n_way = 0)
    => /\ get_pin_count(comp) = <<1, 1>>
       /\ Len(comp.input) = 1 /\ Len(comp.output) = 1
       /\ comp.full_adders = <<>>
       /\ lastOp = "new" => status = "ok"
       /\ lastOp \in {"update_state", "fire"} => status = "panic"
       /\ comp.output = Wires(1)

\* C25 witness: a RippleCarryAdder(0) fired with carry-in 1: the pin was
\* written, update_state aborted and the output is low.
C25_Witness ==
    /\ comp.kind = "RippleCarryAdder"
    /\ comp.n_way = 0
    /\ status = "panic"
    /\ lastOp = "fire"
    /\ batch = "full"
    /\ comp.input = <<TRUE>>
    /\ comp.output = <<FALSE>>

\* S tagged E was rendered with to_raw(E, format_type) and the text parsed
\* with the from_* of the same endianness E, ignore_padding = true.
StrippedRoundTripDone ==
    /\ codec.source = "of"
    /\ codec.step \in {"from_little_endian", "from_big_endian"}
    /\ codec.little_endian = codec.self.little_endian
    /\ (codec.step = "from_little_endian") = codec.self.little_endian
    /\ codec.ignore_padding

\* C26: for every non-empty S whose element next to the padding is high
\* (the first for big-endian, the last for little-endian) and format_type
\* 1 or 2, the round trip with ignore_padding = true gives a Potentials
\* tagged E whose stored sequence is exactly S.
C26_StrippedRoundTrip ==
    (/\ StrippedRoundTripDone
     /\ codec.format_type \in {1, 2}
     /\ Len(codec.self.data) > 0
     /\ IF codec.self.little_endian
        THEN codec.self.data[Len(codec.self.data)]
        ELSE codec.self.data[1])
    => /\ codec.parsed.data = codec.self.data
       /\ codec.parsed.little_endian = codec.self.little_endian

\* C26 witness: the big-endian value (1, 0, 0, 0, 0) rendered in nibbles is
\* "0001 0000", three padding zeros first; the parse strips them and gives
\* the five bits back.
C26_Witness ==
    /\ StrippedRoundTripDone
    /\ codec.self = of_big_endian(<<TRUE, FALSE, FALSE, FALSE, FALSE>>)
    /\ codec.format_type = 1
    /\ codec.raw = <<"0", "0", "0", "1", " ", "0", "0", "0", "0">>
    /\ codec.parsed = codec.self

====
